---- MODULE Spec2Model ----
(***************************************************************************)
(* Model of helix-core/src/increment/integer.rs: increment(selected_text,  *)
(* amount) -> Option<String>.                                              *)
(*                                                                         *)
(* Text is a sequence of one-character strings.  The 128-bit integer types *)
(* of the source (i128, u128) are modelled by Bits-bit types and the i64   *)
(* amount by an AmountBits-bit type, AmountBits < Bits, so that wrap,      *)
(* saturation and parse overflow happen at values TLC can enumerate.       *)
(* One behaviour of the model is one call: Init draws the arguments, the   *)
(* actions are the successive steps of the function body.                  *)
(***************************************************************************)
EXTENDS Integers, Sequences, FiniteSets

VARIABLES selected_text, amount, pc, pattern, separator_rtl_indexes, word,
          new_text, k, spacing, index, result

vars == <<selected_text, amount, pc, pattern, separator_rtl_indexes, word,
          new_text, k, spacing, index, result>>

(***************************************************************************)
(* Bounds of the model.                                                    *)
(***************************************************************************)
\* width of the wide integer types (128 in the source)
Bits == 12
\* longest digit/separator run that follows the lead of a token
MaxBody == 4
\* the extension loop is followed until the text reaches this length
MaxText == 14

(***************************************************************************)
(* Constants and types of the source.                                      *)
(***************************************************************************)
SEPARATOR == "_"

Base2 == 2
Base8 == 8
Base10 == 10
Base16 == 16

NumberPattern(base, prefix) == [base |-> base, prefix |-> prefix]

RECURSIVE Pow2(_)
Pow2(n) == IF n = 0 THEN 1 ELSE 2 * Pow2(n - 1)

\* i128::MIN, i128::MAX, u128::MAX at the modelled width
I128Min == -Pow2(Bits - 1)
I128Max == Pow2(Bits - 1) - 1
U128Max == Pow2(Bits) - 1

\* i64::MIN, i64::MAX at the modelled width
AmountBits == Bits \div 2
I64Min == -Pow2(AmountBits - 1)
I64Max == Pow2(AmountBits - 1) - 1

(***************************************************************************)
(* Characters.                                                             *)
(***************************************************************************)
DecimalDigits == <<"0", "1", "2", "3", "4", "5", "6", "7", "8", "9">>
LowerDigits == <<"a", "b", "c", "d", "e", "f">>
UpperDigits == <<"A", "B", "C", "D", "E", "F">>

IndexOf(seq, c) == IF \E i \in 1..Len(seq) : seq[i] = c
                   THEN CHOOSE i \in 1..Len(seq) : seq[i] = c
                   ELSE 0

\* char::to_digit(radix): the digit's value, or -1 for None
ToDigit(c, radix) ==
    LET v == IF IndexOf(DecimalDigits, c) > 0 THEN IndexOf(DecimalDigits, c) - 1
             ELSE IF IndexOf(LowerDigits, c) > 0 THEN IndexOf(LowerDigits, c) + 9
             ELSE IF IndexOf(UpperDigits, c) > 0 THEN IndexOf(UpperDigits, c) + 9
             ELSE -1
    IN IF v < radix THEN v ELSE -1

\* regex \d on ASCII text
IsDecimalDigit(c) == IndexOf(DecimalDigits, c) > 0

is_ascii_lowercase(c) ==
    c \in {"a", "b", "c", "d", "e", "f", "g", "h", "o", "x"}
is_ascii_uppercase(c) ==
    c \in {"A", "B", "C", "D", "E", "F", "G", "H", "O", "X"}

(***************************************************************************)
(* String helpers of the standard library, as the function uses them.      *)
(***************************************************************************)
starts_with(s, p) == Len(s) >= Len(p) /\ SubSeq(s, 1, Len(p)) = p
ends_with(s, p) == Len(s) >= Len(p) /\ SubSeq(s, Len(s) - Len(p) + 1, Len(s)) = p

\* String::insert(idx, ch), idx counted from 0
Insert(s, idx, c) == SubSeq(s, 1, idx) \o <<c>> \o SubSeq(s, idx + 1, Len(s))

\* str::find(ch): 0-based position of the first occurrence, -1 for None
Find(s, c) == IndexOf(s, c) - 1

RECURSIVE Zeros(_)
Zeros(n) == IF n <= 0 THEN <<>> ELSE <<"0">> \o Zeros(n - 1)

(***************************************************************************)
(* Pattern recognition (lines 37-60).  Each matcher gives the length of    *)
(* its match at the start of the text, or -1 when it does not match.       *)
(***************************************************************************)
RECURSIVE DigitRun(_)
\* the greedy \d* : number of leading decimal digits
DigitRun(s) == IF s # <<>> /\ IsDecimalDigit(Head(s)) THEN 1 + DigitRun(Tail(s)) ELSE 0

\* ^0x, ^0o, ^0b
MatchLiteral(s, p) == IF starts_with(s, p) THEN Len(p) ELSE -1

\* ^\d*'h, ^\d*'d, ^\d*'b
MatchQuoted(s, letter) ==
    LET n == DigitRun(s)
    IN IF Len(s) >= n + 2 /\ s[n + 1] = "'" /\ s[n + 2] = letter THEN n + 2 ELSE -1

\* first alternative that matches wins
Alt(a, b) == IF a >= 0 THEN a ELSE b

Matcher(base, s) ==
    CASE base = Base16 -> Alt(MatchLiteral(s, <<"0", "x">>), MatchQuoted(s, "h"))
      [] base = Base10 -> MatchQuoted(s, "d")
      [] base = Base8  -> MatchLiteral(s, <<"0", "o">>)
      [] base = Base2  -> Alt(MatchLiteral(s, <<"0", "b">>), MatchQuoted(s, "b"))

patterns == <<Base16, Base10, Base8, Base2>>

\* patterns.iter().find_map(..), then the default of lines 54-60
FindPattern(s) ==
    IF \E i \in 1..Len(patterns) : Matcher(patterns[i], s) >= 0
    THEN LET i == CHOOSE i \in 1..Len(patterns) :
                      /\ Matcher(patterns[i], s) >= 0
                      /\ \A j \in 1..(i - 1) : Matcher(patterns[j], s) < 0
         IN NumberPattern(patterns[i], SubSeq(s, 1, Matcher(patterns[i], s)))
    ELSE NumberPattern(Base10, <<>>)

(***************************************************************************)
(* Separator stripping (lines 69-77).                                      *)
(***************************************************************************)
\* positions of the separators counted from the right end, ascending
SeparatorRtlIndexes(s) ==
    SelectSeq([i \in 1..Len(s) |-> i - 1], LAMBDA i : s[Len(s) - i] = SEPARATOR)

StripSeparators(s) == SelectSeq(s, LAMBDA c : c # SEPARATOR)

(***************************************************************************)
(* Parsing: {i128,u128}::from_str_radix.  [ok, val]; ok = FALSE is Err.    *)
(***************************************************************************)
ParseErr == [ok |-> FALSE, val |-> 0]

RECURSIVE Accumulate(_, _, _, _, _, _)
Accumulate(digits, radix, acc, negative, min, max) ==
    IF digits = <<>> THEN [ok |-> TRUE, val |-> acc]
    ELSE LET d == ToDigit(Head(digits), radix)
             next == IF negative THEN acc * radix - d ELSE acc * radix + d
         IN IF d < 0 \/ next > max \/ next < min
            THEN ParseErr
            ELSE Accumulate(Tail(digits), radix, next, negative, min, max)

FromStrRadix(src, radix, is_signed, min, max) ==
    IF src = <<>> \/ src = <<"+">> \/ src = <<"-">> THEN ParseErr
    ELSE IF Head(src) = "+" THEN Accumulate(Tail(src), radix, 0, FALSE, min, max)
    ELSE IF Head(src) = "-" /\ is_signed THEN Accumulate(Tail(src), radix, 0, TRUE, min, max)
    ELSE Accumulate(src, radix, 0, FALSE, min, max)

i128_from_str_radix(src, radix) == FromStrRadix(src, radix, TRUE, I128Min, I128Max)
u128_from_str_radix(src, radix) == FromStrRadix(src, radix, FALSE, 0, U128Max)

(***************************************************************************)
(* Arithmetic.                                                             *)
(***************************************************************************)
\* i128::saturating_add
saturating_add(a, b) ==
    IF a + b > I128Max THEN I128Max
    ELSE IF a + b < I128Min THEN I128Min
    ELSE a + b

\* value as i128: the bits of the unsigned value read as two's complement
AsI128(value) == IF value > I128Max THEN value - Pow2(Bits) ELSE value

\* line 102 left out
ClampZeroMissing(new_value) == new_value

\* line 102
ClampZero(new_value) == IF new_value < 0 THEN 0 ELSE new_value

(***************************************************************************)
(* Formatting: {:01$}, {:01$b}, {:01$o}, {:01$x}, {:01$X}, {}.             *)
(***************************************************************************)
DigitChar(d, upper) ==
    IF d < 10 THEN DecimalDigits[d + 1]
    ELSE IF upper THEN UpperDigits[d - 9] ELSE LowerDigits[d - 9]

RECURSIVE ToRadix(_, _, _)
\* digits of n >= 0
ToRadix(n, radix, upper) ==
    IF n < radix THEN <<DigitChar(n, upper)>>
    ELSE ToRadix(n \div radix, radix, upper) \o <<DigitChar(n % radix, upper)>>

\* sign-aware zero padding to a minimum width; never truncates
FormatPadded(v, width, radix, upper) ==
    IF v < 0
    THEN LET d == ToRadix(-v, radix, upper)
         IN <<"-">> \o Zeros(width - 1 - Len(d)) \o d
    ELSE LET d == ToRadix(v, radix, upper)
         IN Zeros(width - Len(d)) \o d

\* format!("{}", v)
FormatPlain(v) == FormatPadded(v, 0, Base10, FALSE)

(***************************************************************************)
(* The values the body of increment computes, as functions of the state.   *)
(***************************************************************************)
Some(text) == [some |-> TRUE, text |-> text]
None == [some |-> FALSE, text |-> <<>>]

\* lines 30-32 without the test of the end
IsRejectedNoEnd(text) ==
    text = <<>> \/ starts_with(text, <<SEPARATOR>>)

\* lines 30-32
IsRejected(text) ==
    text = <<>> \/ ends_with(text, <<SEPARATOR>>) \/ starts_with(text, <<SEPARATOR>>)

\* line 81 and line 98
Number(w, p) == IF p.base = Base10 THEN w ELSE SubSeq(w, Len(p.prefix) + 1, Len(w))

\* line 82 and line 100
ParsedValue(w, p) ==
    IF p.base = Base10 THEN i128_from_str_radix(Number(w, p), p.base)
    ELSE u128_from_str_radix(Number(w, p), p.base)

\* line 83 and lines 101-102
NewValue(value, amt, base) ==
    IF base = Base10 THEN saturating_add(value, amt)
    ELSE ClampZero(saturating_add(AsI128(value), amt))

\* lines 85-89, as an integer: below zero where the usize subtraction overflows
DecimalFormatLength(number, value, new_value, nsep) ==
    (CASE value < 0 /\ ~(new_value < 0) -> Len(number) - 1
       [] ~(value < 0) /\ new_value < 0 -> Len(number) + 1
       [] OTHER -> Len(number)) - nsep

\* lines 103-104
RadixFormatLength(text, prefix, nsep) == Len(text) - Len(prefix) - nsep

\* line 91
IsPadded(number) == starts_with(number, <<"0">>) \/ starts_with(number, <<"-", "0">>)

\* lines 110-117
lower_count(number) == Len(SelectSeq(number, is_ascii_lowercase))
upper_count(number) == Len(SelectSeq(number, is_ascii_uppercase))
\* line 117 with >= for >
UseUpperTie(number) ==
    upper_count(number) >= lower_count(number)

UseUpper(number) ==
    upper_count(number) > lower_count(number)

\* lines 91-95
RenderDecimal(number, new_value, format_length) ==
    IF IsPadded(number) THEN FormatPadded(new_value, format_length, Base10, FALSE)
    ELSE FormatPlain(new_value)

\* lines 106-122
RenderRadix(number, new_value, format_length, p) ==
    p.prefix \o FormatPadded(new_value, format_length, p.base,
                             p.base = Base16 /\ UseUpper(number))

\* lines 130-135: one round of the loop over the recorded offsets
RestoreOne(text, rtl_index) ==
    IF rtl_index < Len(text) /\ Len(text) - rtl_index > 0
    THEN Insert(text, Len(text) - rtl_index, SEPARATOR)
    ELSE text

\* lines 140-143
Spacing(rtl) ==
    IF Len(rtl) >= 2 THEN rtl[Len(rtl)] - rtl[Len(rtl) - 1] - 1 ELSE rtl[1]

(***************************************************************************)
(* The arguments of a call.                                                *)
(***************************************************************************)
Strings(chars, n) == UNION {[1..m -> chars] : m \in 0..n}

TokenClasses ==
    { [leads |-> {<<>>, <<"-">>}, chars |-> {"0", "1", "9", "+", SEPARATOR}],
      [leads |-> {<<"0", "x">>, <<"'", "h">>, <<"4", "'", "h">>},
       chars |-> {"0", "1", "f", "F", "+", SEPARATOR}],
      [leads |-> {<<"0", "o">>}, chars |-> {"0", "1", "7", "9", SEPARATOR}],
      [leads |-> {<<"0", "b">>, <<"'", "b">>}, chars |-> {"0", "1", "9", SEPARATOR}],
      [leads |-> {<<"'", "d">>, <<"8", "'", "d">>}, chars |-> {"0", "1", "9", SEPARATOR}] }

Tokens ==
    UNION { {lead \o body : lead \in c.leads, body \in Strings(c.chars, MaxBody)} :
            c \in TokenClasses }

Amounts == {I64Min, -1, 0, 1, I64Max}

(***************************************************************************)
(* The call, step by step.                                                 *)
(***************************************************************************)
Init ==
    /\ selected_text \in Tokens
    /\ amount \in Amounts
    /\ pc = "start"
    /\ pattern = NumberPattern(Base10, <<>>)
    /\ separator_rtl_indexes = <<>>
    /\ word = <<>>
    /\ new_text = <<>>
    /\ k = 0
    /\ spacing = 0
    /\ index = 0
    /\ result = None

\* lines 30-35
Reject ==
    /\ pc = "start"
    /\ IsRejected(selected_text)
    /\ pc' = "done"
    /\ result' = None
    /\ UNCHANGED <<selected_text, amount, pattern, separator_rtl_indexes, word,
                   new_text, k, spacing, index>>

\* lines 37-77
Recognize ==
    /\ pc = "start"
    /\ ~IsRejected(selected_text)
    /\ pattern' = FindPattern(selected_text)
    /\ separator_rtl_indexes' = SeparatorRtlIndexes(selected_text)
    /\ word' = StripSeparators(selected_text)
    /\ pc' = "render"
    /\ UNCHANGED <<selected_text, amount, new_text, k, spacing, index, result>>

\* the ? of line 82 and of line 100
ParseFail ==
    /\ pc = "render"
    /\ ~ParsedValue(word, pattern).ok
    /\ pc' = "done"
    /\ result' = None
    /\ UNCHANGED <<selected_text, amount, pattern, separator_rtl_indexes, word,
                   new_text, k, spacing, index>>

\* lines 80-96.  Where the subtraction of line 89 overflows, a build without
\* overflow checks goes on with a width near usize::MAX, which only the
\* unpadded format of line 94 survives.
RenderBase10 ==
    /\ pc = "render"
    /\ pattern.base = Base10
    /\ ParsedValue(word, pattern).ok
    /\ LET number == Number(word, pattern)
           value == ParsedValue(word, pattern).val
           new_value == NewValue(value, amount, pattern.base)
           format_length == DecimalFormatLength(number, value, new_value,
                                                Len(separator_rtl_indexes))
       IN /\ format_length >= 0 \/ ~IsPadded(number)
          /\ new_text' = RenderDecimal(number, new_value, format_length)
    /\ pc' = "restore"
    /\ k' = 1
    /\ UNCHANGED <<selected_text, amount, pattern, separator_rtl_indexes, word,
                   spacing, index, result>>

\* line 89 where the subtraction overflows: the panic of a build with overflow
\* checks, or the zero padding to a width near usize::MAX of a build without
WidthOverflow ==
    /\ pc = "render"
    /\ pattern.base = Base10
    /\ ParsedValue(word, pattern).ok
    /\ LET number == Number(word, pattern)
           value == ParsedValue(word, pattern).val
           new_value == NewValue(value, amount, pattern.base)
       IN DecimalFormatLength(number, value, new_value,
                              Len(separator_rtl_indexes)) < 0
    /\ pc' = "panicked"
    /\ UNCHANGED <<selected_text, amount, pattern, separator_rtl_indexes, word,
                   new_text, k, spacing, index, result>>

\* lines 97-125
RenderBaseN ==
    /\ pc = "render"
    /\ pattern.base # Base10
    /\ ParsedValue(word, pattern).ok
    /\ LET number == Number(word, pattern)
           value == ParsedValue(word, pattern).val
           new_value == NewValue(value, amount, pattern.base)
           format_length == RadixFormatLength(selected_text, pattern.prefix,
                                              Len(separator_rtl_indexes))
       IN new_text' = RenderRadix(number, new_value, format_length, pattern)
    /\ pc' = "restore"
    /\ k' = 1
    /\ UNCHANGED <<selected_text, amount, pattern, separator_rtl_indexes, word,
                   spacing, index, result>>

\* lines 129-136, one round
RestoreSeparator ==
    /\ pc = "restore"
    /\ k <= Len(separator_rtl_indexes)
    /\ new_text' = RestoreOne(new_text, separator_rtl_indexes[k])
    /\ k' = k + 1
    /\ UNCHANGED <<selected_text, amount, pc, pattern, separator_rtl_indexes,
                   word, spacing, index, result>>

\* line 139
Grows == Len(new_text) > Len(selected_text) /\ separator_rtl_indexes # <<>>

\* lines 139-146 when the text grew and a separator is found
BeginExtend ==
    /\ pc = "restore"
    /\ k > Len(separator_rtl_indexes)
    /\ Grows
    /\ Find(new_text, SEPARATOR) >= 0
    /\ spacing' = Spacing(separator_rtl_indexes)
    /\ index' = Find(new_text, SEPARATOR)
    /\ pc' = "extend"
    /\ UNCHANGED <<selected_text, amount, pattern, separator_rtl_indexes, word,
                   new_text, k, result>>

\* lines 139 and 154 when nothing is to be extended
ReturnRestored ==
    /\ pc = "restore"
    /\ k > Len(separator_rtl_indexes)
    /\ ~(Grows /\ Find(new_text, SEPARATOR) >= 0)
    /\ pc' = "done"
    /\ result' = Some(new_text)
    /\ UNCHANGED <<selected_text, amount, pattern, separator_rtl_indexes, word,
                   new_text, k, spacing, index>>

\* line 147
LoopCondition == index - Len(pattern.prefix) > spacing

\* lines 147-150, one round
ExtendSeparator ==
    /\ pc = "extend"
    /\ LoopCondition
    /\ Len(new_text) < MaxText
    /\ index' = index - spacing
    /\ new_text' = Insert(new_text, index - spacing, SEPARATOR)
    /\ UNCHANGED <<selected_text, amount, pc, pattern, separator_rtl_indexes,
                   word, k, spacing, result>>

\* line 147 false, then line 154
ReturnExtended ==
    /\ pc = "extend"
    /\ ~LoopCondition
    /\ pc' = "done"
    /\ result' = Some(new_text)
    /\ UNCHANGED <<selected_text, amount, pattern, separator_rtl_indexes, word,
                   new_text, k, spacing, index>>

Next ==
    \/ Reject
    \/ Recognize
    \/ ParseFail
    \/ RenderBase10
    \/ WidthOverflow
    \/ RenderBaseN
    \/ RestoreSeparator
    \/ BeginExtend
    \/ ReturnRestored
    \/ ExtendSeparator
    \/ ReturnExtended

Spec == Init /\ [][Next]_vars

(***************************************************************************)
(* Vocabulary of the properties.                                           *)
(***************************************************************************)
Returned == pc = "done"
ReturnedSome == pc = "done" /\ result.some

Last(s) == s[Len(s)]

RECURSIVE DigitsValue(_, _)
\* the number a string of valid digits denotes; no width
DigitsValue(digits, radix) ==
    IF digits = <<>> THEN 0
    ELSE DigitsValue(SubSeq(digits, 1, Len(digits) - 1), radix) * radix
         + ToDigit(Last(digits), radix)

AllDigits(s, radix) == \A i \in 1..Len(s) : ToDigit(s[i], radix) >= 0

Max(a, b) == IF a >= b THEN a ELSE b

\* the text after the first n characters
After(s, n) == SubSeq(s, n + 1, Len(s))

\* the token's digits, prefix and separators taken off
TokenDigits == After(StripSeparators(selected_text), Len(pattern.prefix))
\* the result's digits, prefix and separators taken off
ResultDigits == After(StripSeparators(result.text), Len(pattern.prefix))

IsRadixToken == pattern.base # Base10 /\ TokenDigits # <<>> /\ AllDigits(TokenDigits, pattern.base)

\* C1: a binary, octal or hexadecimal token of value v never wraps: for an
\* amount >= 0 the result's value is >= v, for an amount <= 0 it is max(0, v + amount).
C1_SaturatingNeverWraps ==
    (ReturnedSome /\ IsRadixToken) =>
        LET v == DigitsValue(TokenDigits, pattern.base)
            r == DigitsValue(ResultDigits, pattern.base)
        IN /\ amount >= 0 => r >= v
           /\ amount <= 0 => r = Max(0, v + amount)

\* C2: every call ends with a text or with the absent result, never with a
\* fatal error.
C2_NeverFatal == pc # "panicked"

\* C3: the loop that inserts additional separators inserts no more of them
\* than the text has other characters.
C3_ExtensionBounded ==
    pc = "extend" =>
        Len(new_text) - Len(StripSeparators(new_text)) - Len(separator_rtl_indexes)
            <= Len(StripSeparators(new_text))

\* a token <width>'d<digits>
ExplicitDecimal(t) ==
    /\ MatchQuoted(t, "d") > 0
    /\ After(t, MatchQuoted(t, "d")) # <<>>
    /\ AllDigits(After(t, MatchQuoted(t, "d")), Base10)
    /\ DigitsValue(After(t, MatchQuoted(t, "d")), Base10) <= I128Max

\* C4: a token with an explicit decimal prefix is not rejected: the result is
\* the same prefix followed by the decimal rendering of value + amount.
C4_ExplicitDecimalPrefix ==
    (Returned /\ ExplicitDecimal(selected_text)) =>
        LET n == MatchQuoted(selected_text, "d")
            v == DigitsValue(After(selected_text, n), Base10)
        IN /\ result.some
           /\ SubSeq(result.text, 1, n) = SubSeq(selected_text, 1, n)
           /\ \E w \in 0..Len(selected_text) :
                  After(result.text, n) = FormatPadded(v + amount, w, Base10, FALSE)

\* the characters before the digits: the prefix and a minus sign
LeadLen(t) ==
    Len(pattern.prefix)
    + (IF Len(t) > Len(pattern.prefix) /\ t[Len(pattern.prefix) + 1] = "-" THEN 1 ELSE 0)

\* d is digits in groups of g, the leftmost group of 1 to g digits
Grouped(d, g) ==
    LET r == SeparatorRtlIndexes(d)
    IN /\ r # <<>>
       /\ AllDigits(StripSeparators(d), pattern.base)
       /\ \A j \in 1..Len(r) : r[j] = j * (g + 1) - 1
       /\ Len(d) - r[Len(r)] - 1 \in 1..g

\* C5: a token in groups of g whose result is longer has a result in groups
\* of g, with no separator directly after the prefix or the minus sign.
C5_UniformGroupsKept ==
    ReturnedSome =>
        \A g \in 1..MaxBody :
            (/\ Grouped(After(selected_text, LeadLen(selected_text)), g)
             /\ Len(result.text) > Len(selected_text))
            => Grouped(After(result.text, LeadLen(result.text)), g)

DigitCount(t) == Len(SelectSeq(t, IsDecimalDigit))

\* a decimal token, digits and separators after an optional minus sign,
\* whose digits begin with 0
ZeroLedDecimal ==
    /\ pattern.base = Base10
    /\ pattern.prefix = <<>>
    /\ IsPadded(word)
    /\ AllDigits(After(word, LeadLen(word)), Base10)

\* C6: a decimal token that begins with 0 or -0 keeps its digit count when
\* the new value fits, and its separators keep their offsets from the right.
C6_PaddingKept ==
    (ReturnedSome /\ ZeroLedDecimal) =>
        LET v == IF Head(word) = "-" THEN -DigitsValue(Tail(word), Base10)
                 ELSE DigitsValue(word, Base10)
            n == IF v + amount < 0 THEN -(v + amount) ELSE v + amount
        IN Len(ToRadix(n, Base10, FALSE)) <= DigitCount(selected_text) =>
               /\ DigitCount(result.text) = DigitCount(selected_text)
               /\ SeparatorRtlIndexes(result.text) = SeparatorRtlIndexes(selected_text)

\* the token, each digit made 0
ZeroedToken ==
    [i \in 1..Len(selected_text) |->
        IF i <= Len(pattern.prefix) \/ selected_text[i] = SEPARATOR
        THEN selected_text[i] ELSE "0"]

\* C7: a binary, octal or hexadecimal token never yields a minus sign, and
\* when value + amount is below zero the result is the token with every
\* digit made 0: same prefix, same digit count, same separators.
C7_ClampedToZero ==
    (ReturnedSome /\ pattern.base # Base10) =>
        /\ \A i \in 1..Len(result.text) : result.text[i] # "-"
        /\ (IsRadixToken /\ DigitsValue(TokenDigits, pattern.base) + amount < 0)
           => result.text = ZeroedToken

C7_Witness ==
    /\ ReturnedSome
    /\ pattern.base = Base16
    /\ separator_rtl_indexes # <<>>
    /\ DigitsValue(TokenDigits, Base16) > 0
    /\ DigitsValue(TokenDigits, Base16) + amount < 0
    /\ result.text = ZeroedToken

\* an empty token, or one with a separator at either end
BadEnds(t) == t = <<>> \/ Head(t) = SEPARATOR \/ Last(t) = SEPARATOR

\* C8: a token that is empty or starts or ends with the separator is
\* rejected at once: the call ends with the absent result and recognizes,
\* strips and parses nothing.
C8_RejectedAtOnce ==
    BadEnds(selected_text) =>
        /\ pc \in {"start", "done"}
        /\ pc = "done" => result = None
        /\ pattern = NumberPattern(Base10, <<>>)
        /\ word = <<>>
        /\ new_text = <<>>

C8_Witness ==
    /\ Returned
    /\ result = None
    /\ Len(selected_text) > 2
    /\ Head(selected_text) = "0"
    /\ selected_text[2] = "x"
    /\ Last(selected_text) = SEPARATOR
    /\ amount # 0

CountIn(s, set) == Len(SelectSeq(s, LAMBDA c : c \in set))
LowerAF == {"a", "b", "c", "d", "e", "f"}
UpperAF == {"A", "B", "C", "D", "E", "F"}

\* C9: the alphabetic digits of a hexadecimal result are all uppercase when
\* the token has more A-F than a-f digits and all lowercase otherwise; the
\* prefix is kept as it is.
C9_HexCase ==
    (ReturnedSome /\ pattern.base = Base16) =>
        /\ SubSeq(result.text, 1, Len(pattern.prefix))
               = SubSeq(selected_text, 1, Len(pattern.prefix))
        /\ IF CountIn(TokenDigits, UpperAF) > CountIn(TokenDigits, LowerAF)
           THEN CountIn(ResultDigits, LowerAF) = 0
           ELSE CountIn(ResultDigits, UpperAF) = 0

C9_Witness ==
    /\ ReturnedSome
    /\ pattern.base = Base16
    /\ CountIn(TokenDigits, UpperAF) = CountIn(TokenDigits, LowerAF)
    /\ CountIn(TokenDigits, UpperAF) > 0
    /\ CountIn(ResultDigits, LowerAF) > 0

\* every separator of t stands between two digits
SeparatorsBetweenDigits(t) ==
    \A i \in 1..Len(t) :
        t[i] = SEPARATOR =>
            /\ i - 1 > Len(pattern.prefix)
            /\ i < Len(t)
            /\ ToDigit(t[i - 1], pattern.base) >= 0
            /\ ToDigit(t[i + 1], pattern.base) >= 0

\* C10: if every separator of the token stands between two digits, so does
\* every separator of the result.
C10_SeparatorsBetweenDigits ==
    (ReturnedSome /\ SeparatorsBetweenDigits(selected_text))
        => SeparatorsBetweenDigits(result.text)

====
